---- MODULE Spec2Model ----
(***************************************************************************)
(* State-machine model of src/main.py (jootiee/lab_pcs): the pipeline      *)
(*   main -> get_candidates (page poller, solve_captcha, extractor)        *)
(*        -> select_candidate_prompt (select_from_list)                    *)
(* The web page, the classifier and the operator at the keyboard are the   *)
(* environment: what they show or type is drawn with \E at the step where  *)
(* the code reads it.  An uncaught Python exception ends the run in        *)
(* pc = "crashed" with the exception recorded in error.                    *)
(***************************************************************************)
EXTENDS Integers, Sequences, FiniteSets, TLC

(* ------------------------------ bounds --------------------------------- *)
MaxRows == 2        \* rows (tr) of the challenge grid
MaxCells == 4       \* cells (td) of the challenge grid, all rows together
MaxSections == 2    \* cards on the results page
MaxPageRows == 3    \* table rows on the results page, all cards together

(* ------------------------- program constants --------------------------- *)
CLASS_NAMES == <<"bird", "butterfly", "cat", "dinosaur", "dog", "fish", "horse">>

ClickThreshold == 3

(* ------------------------------ helpers -------------------------------- *)
Range(s) == {s[k] : k \in 1..Len(s)}

SeqsUpTo(S, n) == UNION {[1..k -> S] : k \in 0..n}

Min(a, b) == IF a <= b THEN a ELSE b

\* Python list indexing lst[ind]: a negative index counts from the end, an
\* index outside -len..len-1 raises IndexError (0-based ind).
PyIndexOk(lst, ind) == ind >= 0 - Len(lst) /\ ind < Len(lst)

PyIndex(lst, ind) == IF ind >= 0 THEN lst[ind + 1] ELSE lst[Len(lst) + ind + 1]

\* Python dict with insertion order: a sequence of [k, v] pairs, keys unique.
DictKeys(d) == [k \in 1..Len(d) |-> d[k].k]

DictHas(d, key) == \E k \in 1..Len(d) : d[k].k = key

DictGet(d, key) == d[CHOOSE k \in 1..Len(d) : d[k].k = key].v

\* d[key] = val: an existing key keeps its place, a new key goes last.
DictSet(d, key, val) ==
    IF DictHas(d, key)
    THEN [k \in 1..Len(d) |-> IF d[k].k = key THEN [k |-> key, v |-> val] ELSE d[k]]
    ELSE Append(d, [k |-> key, v |-> val])

NoError == [type |-> "none", at |-> "none"]

Raise(type, at) == [type |-> type, at |-> at]

(* --------------------------- validate_proxy ---------------------------- *)
\* A string is a tuple of one-character strings.
Letters == {"a", "b", "h", "t", "p", "f", "Z"}

Digits == {"0", "1", "8"}

HostChars == Letters \cup Digits \cup {".", "-"}

HttpPrefix == <<"h", "t", "t", "p", ":", "/", "/">>

\* ^http:\/\/[a-zA-Z0-9.\-]+(:[0-9]{1,5})$ matched against the whole of s
FullMatch(s) ==
    /\ Len(s) > Len(HttpPrefix)
    /\ SubSeq(s, 1, Len(HttpPrefix)) = HttpPrefix
    /\ \E k \in (Len(HttpPrefix) + 1)..Len(s) :
         /\ \A m \in (Len(HttpPrefix) + 1)..k : s[m] \in HostChars
         /\ k + 1 <= Len(s)
         /\ s[k + 1] = ":"
         /\ Len(s) - (k + 1) \in 1..5
         /\ \A m \in (k + 2)..Len(s) : s[m] \in Digits

\* re.match with a pattern ending in $: $ also matches just before one
\* newline that ends the string.
validate_proxy(proxy) ==
    \/ FullMatch(proxy)
    \/ /\ Len(proxy) > 0
       /\ proxy[Len(proxy)] = "\n"
       /\ FullMatch(SubSeq(proxy, 1, Len(proxy) - 1))

NoProxy == [isNone |-> TRUE, str |-> <<>>]

Str(s) == [isNone |-> FALSE, str |-> s]

ProxyArgs ==
    { NoProxy,
      Str(<<"h", "t", "t", "p", ":", "/", "/", "a", ":", "8">>),
      Str(<<"h", "t", "t", "p", ":", "/", "/", "a">>),
      Str(<<"f", "t", "p", ":", "/", "/", "a", ":", "8">>) }

(* ----------------------------- has_object ------------------------------ *)
\* An image payload: b64 says whether base64.b64decode accepts it, boxes is
\* the set of class ids (0-based, as in r.boxes.cls) the detector reports
\* at conf >= 0.5.
Images ==
    { [b64 |-> FALSE, boxes |-> {}],
      [b64 |-> TRUE, boxes |-> {}],
      [b64 |-> TRUE, boxes |-> {4}],
      [b64 |-> TRUE, boxes |-> {2, 4}] }

\* the text of the badge that names the object to click
Targets == {"cat", "unicorn"}

ClassIndex(object_name) ==
    (CHOOSE k \in 1..Len(CLASS_NAMES) : CLASS_NAMES[k] = object_name) - 1

\* has_object answering "no" for a name it does not know
has_object_unknownIsNo(image, object_name) ==
    IF object_name \notin Range(CLASS_NAMES)
    THEN [raised |-> "none", value |-> FALSE]
    ELSE IF ~image.b64
    THEN [raised |-> "binascii.Error", value |-> FALSE]
    ELSE [raised |-> "none",
          value |-> \E cls \in image.boxes : cls = (CHOOSE k \in 1..Len(CLASS_NAMES) :
                                                      CLASS_NAMES[k] = object_name) - 1]

\* raised = "none": the call returned value; otherwise it raised.
has_object(image, object_name) ==
    IF object_name \notin Range(CLASS_NAMES)
    THEN [raised |-> "ValueError", value |-> FALSE]
    ELSE IF ~image.b64
    THEN [raised |-> "binascii.Error", value |-> FALSE]
    ELSE [raised |-> "none",
          value |-> \E cls \in image.boxes : cls = ClassIndex(object_name)]

SumSeq(lens) == LET RECURSIVE Sum(_)
                    Sum(k) == IF k = 0 THEN 0 ELSE lens[k] + Sum(k - 1)
                IN Sum(Len(lens))

\* the table of the challenge: rows of images; lens gives the number of
\* cells of each row, flat the images in reading order
GridOf(flat, lens) ==
    [i \in 1..Len(lens) |->
        SubSeq(flat, SumSeq(SubSeq(lens, 1, i - 1)) + 1, SumSeq(SubSeq(lens, 1, i)))]

Grids ==
    UNION { {GridOf(flat, lens) : flat \in [1..SumSeq(lens) -> Images]} :
            lens \in {l \in SeqsUpTo(0..MaxCells, MaxRows) : SumSeq(l) <= MaxCells} }

(* ------------------------------- state --------------------------------- *)
VARIABLES
    pc,          \* position of the single thread of control
    error,       \* the uncaught exception that ended the run, or NoError
    printed,     \* kinds of message printed so far (progress lines left out)
    proxy,       \* args.proxy
    driver,      \* TRUE once Driver(...) has been constructed
    consent,     \* the consent notice is on the page
    lastCheck,   \* outcome of the latest captcha presence test (line 138)
    sinceCheck,  \* solve_captcha calls since the latest presence test
    expected,    \* solve_captcha: text of the target badge
    grid,        \* solve_captcha: the table, a sequence of rows of images
    r, c,        \* solve_captcha: row and cell the two loops stand at
    counter,     \* solve_captcha: counter
    clicks,      \* cells clicked in this call, in order, as <<row, cell>>
    classified,  \* cells handed to has_object in this call, in order
    buttons,     \* get_candidates: len(candidate_buttons), -1 before line 144
    page,        \* the cards read so far, in page order
    result,      \* get_candidates: result
    activated,   \* indices (0-based) of the cards clicked at line 158
    faulted,     \* indices (0-based) of the cards whose parse raised
    candidates,  \* main: value returned by get_candidates
    distros, versions,  \* select_candidate_prompt: the key lists
    chosen,      \* select_candidate_prompt: <<ind_distro, ind_version>>, as
                 \* far as assigned
    prompted,    \* levels (1 distro, 2 version, 3 package, 4 link) prompted
    zeroAt,      \* levels at which the operator typed 0
    res          \* main: value returned by select_candidate_prompt

captchaVars == <<expected, grid, r, c, counter, clicks, classified>>

pollVars == <<lastCheck, sinceCheck>>

extractVars == <<buttons, page, result, activated, faulted>>

selectVars == <<distros, versions, chosen, prompted, zeroAt, res>>

vars == <<pc, error, printed, proxy, driver, consent, pollVars, captchaVars,
          extractVars, candidates, selectVars>>

NoValue == [tag |-> "unset"]

None == [tag |-> "None"]

Dict(d) == [tag |-> "dict", val |-> d]

Init ==
    /\ pc = "main"
    /\ error = NoError
    /\ printed = {}
    /\ proxy \in ProxyArgs
    /\ driver = FALSE
    /\ consent = FALSE
    /\ lastCheck = "none"
    /\ sinceCheck = 0
    /\ expected = ""
    /\ grid = <<>>
    /\ r = 0
    /\ c = 0
    /\ counter = 0
    /\ clicks = <<>>
    /\ classified = <<>>
    /\ buttons = -1
    /\ page = <<>>
    /\ result = <<>>
    /\ activated = {}
    /\ faulted = {}
    /\ candidates = NoValue
    /\ distros = <<>>
    /\ versions = <<>>
    /\ chosen = <<>>
    /\ prompted = {}
    /\ zeroAt = {}
    /\ res = NoValue

Crash(type, at) ==
    /\ pc' = "crashed"
    /\ error' = Raise(type, at)

(* -------------------------------- main --------------------------------- *)
\* lines 226-238: the proxy test, then Driver(...)
MainStart ==
    /\ pc = "main"
    /\ IF ~proxy.isNone /\ ~validate_proxy(proxy.str)
       THEN /\ printed' = printed \cup {"Invalid proxy format"}
            /\ pc' = "done"
            /\ UNCHANGED driver
       ELSE /\ driver' = TRUE
            /\ pc' = "gc_get"
            /\ UNCHANGED printed
    /\ UNCHANGED <<error, proxy, consent, pollVars, captchaVars, extractVars,
                   candidates, selectVars>>

\* the status the process ends with: main returning (line 232 or the end of
\* main) lets the script run off its end, status 0; an uncaught exception
\* ends it with status 1
ExitStatus == IF pc = "crashed" THEN 1 ELSE 0

(* --------------------------- get_candidates ---------------------------- *)
\* lines 129-132: driver.get and the 10 s wait for the container; the wait
\* raises TimeoutException when the container never shows up.
GcLoad ==
    /\ pc = "gc_get"
    /\ \E loaded \in BOOLEAN, banner \in BOOLEAN :
         IF loaded
         THEN /\ consent' = banner
              /\ pc' = "gc_consent"
              /\ UNCHANGED error
         ELSE /\ Crash("TimeoutException", "get_candidates")
              /\ UNCHANGED consent
    /\ UNCHANGED <<printed, proxy, driver, pollVars, captchaVars, extractVars,
                   candidates, selectVars>>

\* lines 134-137
GcConsent ==
    /\ pc = "gc_consent"
    /\ consent' = FALSE
    /\ pc' = "gc_check"
    /\ UNCHANGED <<error, printed, proxy, driver, pollVars, captchaVars, extractVars,
                   candidates, selectVars>>

\* the loop of line 138 never entered
CaptchaLoopCond_never(found) == FALSE

\* the loop of line 138 made unconditional
CaptchaLoopCond_always(found) == TRUE

\* line 138: while len(driver.find_elements(By.ID, "captcha"))
CaptchaLoopCond(found) == found # 0

\* lines 138-139 and 142: one test of the loop condition
GcCheck ==
    /\ pc = "gc_check"
    /\ \E found \in 0..1 :
         /\ lastCheck' = IF found # 0 THEN "present" ELSE "absent"
         /\ IF CaptchaLoopCond(found)
            THEN pc' = "sc_start"
            ELSE pc' = "gc_locate"
    /\ sinceCheck' = 0
    /\ UNCHANGED <<error, printed, proxy, driver, consent, captchaVars, extractVars,
                   candidates, selectVars>>

(* ---------------------------- solve_captcha ---------------------------- *)
\* lines 107-111: read the badge and the rows of the table, counter = 0
ScStart ==
    /\ pc = "sc_start"
    /\ \E t \in Targets, g \in Grids :
         /\ expected' = t
         /\ grid' = g
    /\ r' = 1
    /\ c' = 1
    /\ counter' = 0
    /\ clicks' = <<>>
    /\ classified' = <<>>
    /\ sinceCheck' = sinceCheck + 1
    /\ pc' = "sc_scan"
    /\ UNCHANGED <<error, printed, proxy, driver, consent, lastCheck,
                   extractVars, candidates, selectVars>>

\* line 120: if counter == 3
BudgetReached(cnt) == cnt = ClickThreshold

\* lines 115-122: one cell: has_object, and on a match the click, the count
\* and the test of the count
ScCell ==
    /\ pc = "sc_scan"
    /\ r <= Len(grid)
    /\ c <= Len(grid[r])
    /\ classified' = Append(classified, <<r, c>>)
    /\ LET ho == has_object(grid[r][c], expected) IN
         IF ho.raised # "none"
         THEN /\ Crash(ho.raised, "has_object")
              /\ UNCHANGED <<c, counter, clicks>>
         ELSE IF ho.value
         THEN /\ clicks' = Append(clicks, <<r, c>>)
              /\ counter' = counter + 1
              /\ pc' = IF BudgetReached(counter + 1) THEN "sc_return" ELSE "sc_scan"
              /\ c' = c + 1
              /\ UNCHANGED error
         ELSE /\ c' = c + 1
              /\ UNCHANGED <<pc, error, counter, clicks>>
    /\ UNCHANGED <<printed, proxy, driver, consent, pollVars, expected, grid, r,
                   extractVars, candidates, selectVars>>

\* the next row entered without starting again at its first cell
ScNextRow_keepsCell ==
    /\ pc = "sc_scan"
    /\ r <= Len(grid)
    /\ c > Len(grid[r])
    /\ r' = r + 1
    /\ UNCHANGED <<pc, error, printed, proxy, driver, consent, pollVars,
                   expected, grid, c, counter, clicks, classified, extractVars,
                   candidates, selectVars>>

\* lines 112-113: the cells of a row are done, on to the next row
ScNextRow ==
    /\ pc = "sc_scan"
    /\ r <= Len(grid)
    /\ c > Len(grid[r])
    /\ r' = r + 1
    /\ c' = 1
    /\ UNCHANGED <<pc, error, printed, proxy, driver, consent, pollVars,
                   expected, grid, counter, clicks, classified, extractVars,
                   candidates, selectVars>>

\* line 112: the rows are done, solve_captcha returns
ScExhausted ==
    /\ pc = "sc_scan"
    /\ r > Len(grid)
    /\ pc' = "sc_return"
    /\ UNCHANGED <<error, printed, proxy, driver, consent, pollVars,
                   captchaVars, extractVars, candidates, selectVars>>

\* line 141: back in get_candidates, sleep(0.5), then the loop test again;
\* the locals of solve_captcha are gone
GcSettle ==
    /\ pc = "sc_return"
    /\ pc' = "gc_check"
    /\ expected' = ""
    /\ grid' = <<>>
    /\ r' = 0
    /\ c' = 0
    /\ counter' = 0
    /\ clicks' = <<>>
    /\ classified' = <<>>
    /\ UNCHANGED <<error, printed, proxy, driver, consent, pollVars,
                   extractVars, candidates, selectVars>>

(* ------------------------ get_candidates: cards ------------------------ *)
\* A table row of a card: a header row has class "table-active"; any other
\* row is read as a data row; a broken row is one without the anchor or
\* the second cell, whose read raises.
Header(t) == [kind |-> "header", text |-> t, link |-> "", description |-> ""]

Data(l, d) == [kind |-> "data", text |-> "", link |-> l, description |-> d]

Broken == [kind |-> "broken", text |-> "", link |-> "", description |-> ""]

HeaderTexts == {"v1", "v2"}

PageRows ==
    {Header(t) : t \in HeaderTexts} \cup {Data("l1", "d1"), Data("l2", "d2"), Broken}

DistroNames == {"debian", "fedora"}

Cards(maxRows) == [name : DistroNames, rows : SeqsUpTo(PageRows, maxRows)]

RowsRead(p) == LET RECURSIVE Sum(_)
                   Sum(k) == IF k = 0 THEN 0 ELSE Len(p[k].rows) + Sum(k - 1)
               IN Sum(Len(p))

\* the loop over the rows with line 170 opening a list only for a key that
\* is not there yet
RECURSIVE ParseRows_keepsList(_, _, _, _)
ParseRows_keepsList(rows, k, candidate, subsection_name) ==
    IF k > Len(rows)
    THEN [raised |-> "none", candidate |-> candidate]
    ELSE IF rows[k].kind = "header"
    THEN ParseRows_keepsList(rows, k + 1,
                             IF DictHas(candidate, rows[k].text) THEN candidate
                             ELSE DictSet(candidate, rows[k].text, <<>>),
                             rows[k].text)
    ELSE IF ~DictHas(candidate, subsection_name)
    THEN [raised |-> "KeyError", candidate |-> candidate]
    ELSE IF rows[k].kind = "broken"
    THEN [raised |-> "NoSuchElementException", candidate |-> candidate]
    ELSE ParseRows_keepsList(rows, k + 1,
                             DictSet(candidate, subsection_name,
                                     Append(DictGet(candidate, subsection_name),
                                            [link |-> rows[k].link,
                                             description |-> rows[k].description])),
                             subsection_name)

\* lines 166-176: the loop over the rows of one card, from row k on, with
\* the candidate built so far and the current subsection_name.  raised is
\* the exception that ended the loop, "none" when it ran to the end.
RECURSIVE ParseRows(_, _, _, _)
ParseRows(rows, k, candidate, subsection_name) ==
    IF k > Len(rows)
    THEN [raised |-> "none", candidate |-> candidate]
    ELSE IF rows[k].kind = "header"
    THEN ParseRows(rows, k + 1, DictSet(candidate, rows[k].text, <<>>), rows[k].text)
    ELSE IF ~DictHas(candidate, subsection_name)
    THEN [raised |-> "KeyError", candidate |-> candidate]
    ELSE IF rows[k].kind = "broken"
    THEN [raised |-> "NoSuchElementException", candidate |-> candidate]
    ELSE ParseRows(rows, k + 1,
                   DictSet(candidate, subsection_name,
                           Append(DictGet(candidate, subsection_name),
                                  [link |-> rows[k].link,
                                   description |-> rows[k].description])),
                   subsection_name)

\* the body of the loop with an except that starts result afresh
AfterCard_clearsOnFault(res0, card) ==
    LET parsed == ParseRows(card.rows, 1, <<>>, "") IN
    IF parsed.raised # "none" THEN <<>>
    ELSE DictSet(res0, card.name, parsed.candidate)

\* the body of the loop storing a name only the first time it is seen
AfterCard_keepsFirst(res0, card) ==
    LET parsed == ParseRows(card.rows, 1, <<>>, "") IN
    IF parsed.raised # "none" \/ DictHas(res0, card.name) THEN res0
    ELSE DictSet(res0, card.name, parsed.candidate)

\* the body of the loop without the try/except: whatever the rows gave
\* before the exception is stored
AfterCard_keepsPartial(res0, card) ==
    DictSet(res0, card.name, ParseRows(card.rows, 1, <<>>, "").candidate)

\* lines 155-181: the body of the loop over the cards, for one card: the
\* result after it
AfterCard(res0, card) ==
    LET parsed == ParseRows(card.rows, 1, <<>>, "") IN
    IF parsed.raised # "none" THEN res0
    ELSE DictSet(res0, card.name, parsed.candidate)

\* line 147: if not candidate_buttons
NoCandidateButtons(nb) == nb = 0

\* lines 144-153
GcLocate ==
    /\ pc = "gc_locate"
    /\ \E nb \in 0..MaxSections :
         /\ buttons' = nb
         /\ IF NoCandidateButtons(nb)
            THEN /\ printed' = printed \cup {"No candidates found"}
                 /\ candidates' = None
                 /\ pc' = "main_dump"
            ELSE /\ pc' = "gc_card"
                 /\ UNCHANGED <<printed, candidates>>
    /\ result' = <<>>
    /\ UNCHANGED <<error, proxy, driver, consent, pollVars, captchaVars, page,
                   activated, faulted, selectVars>>

\* line 157: if i
NeedsClick(i) == i # 0

\* lines 157-158: the click that expands the card at index Len(page)
GcActivate ==
    /\ pc = "gc_card"
    /\ Len(page) < buttons
    /\ NeedsClick(Len(page))
    /\ Len(page) \notin activated
    /\ activated' = activated \cup {Len(page)}
    /\ UNCHANGED <<pc, error, printed, proxy, driver, consent, pollVars,
                   captchaVars, buttons, page, result, faulted, candidates,
                   selectVars>>

\* the card read without waiting for the click of line 158
GcCard_readsCollapsed ==
    /\ pc = "gc_card"
    /\ Len(page) < buttons
    /\ \E card \in Cards(MaxPageRows - RowsRead(page)) :
         /\ page' = Append(page, card)
         /\ result' = AfterCard(result, card)
         /\ IF ParseRows(card.rows, 1, <<>>, "").raised # "none"
            THEN /\ faulted' = faulted \cup {Len(page)}
                 /\ printed' = printed \cup {"exception:"}
            ELSE UNCHANGED <<faulted, printed>>
    /\ UNCHANGED <<pc, error, proxy, driver, consent, pollVars, captchaVars,
                   buttons, activated, candidates, selectVars>>

\* lines 160-181: the rest of one pass of the loop, for the card at index
\* Len(page): its name and rows are read once line 158 is behind
GcCard ==
    /\ pc = "gc_card"
    /\ Len(page) < buttons
    /\ NeedsClick(Len(page)) => Len(page) \in activated
    /\ \E card \in Cards(MaxPageRows - RowsRead(page)) :
         LET i == Len(page)
             parsed == ParseRows(card.rows, 1, <<>>, "")
         IN /\ page' = Append(page, card)
            /\ result' = AfterCard(result, card)
            /\ IF parsed.raised # "none"
               THEN /\ faulted' = faulted \cup {i}
                    /\ printed' = printed \cup {"exception:"}
               ELSE UNCHANGED <<faulted, printed>>
    /\ UNCHANGED <<pc, error, proxy, driver, consent, pollVars, captchaVars,
                   buttons, activated, candidates, selectVars>>

\* line 183 returning None for an empty result
GcReturn_noneWhenEmpty ==
    /\ pc = "gc_card"
    /\ Len(page) = buttons
    /\ candidates' = IF result = <<>> THEN None ELSE Dict(result)
    /\ pc' = "main_dump"
    /\ UNCHANGED <<error, printed, proxy, driver, consent, pollVars,
                   captchaVars, extractVars, selectVars>>

\* line 183: return result
GcReturn ==
    /\ pc = "gc_card"
    /\ Len(page) = buttons
    /\ candidates' = Dict(result)
    /\ pc' = "main_dump"
    /\ UNCHANGED <<error, printed, proxy, driver, consent, pollVars,
                   captchaVars, extractVars, selectVars>>

(* ------------------------- main, after the crawl ----------------------- *)
\* lines 241-244: json.dump, then the call of select_candidate_prompt; the
\* locals of get_candidates are gone
MainDump ==
    /\ pc = "main_dump"
    /\ pc' = "sel_start"
    /\ buttons' = -1
    /\ page' = <<>>
    /\ result' = <<>>
    /\ activated' = {}
    /\ faulted' = {}
    /\ UNCHANGED <<error, printed, proxy, driver, consent, pollVars,
                   captchaVars, candidates, selectVars>>

(* ----------------------- select_candidate_prompt ----------------------- *)
\* what the operator types: digits (str.isdigit() holds) or anything else
MaxChoice == MaxPageRows + 1

Inputs == {[isdigit |-> FALSE, value |-> 0]}
          \cup {[isdigit |-> TRUE, value |-> v] : v \in 0..MaxChoice}

\* lines 193-203: one pass of the loop of select_from_list on one input;
\* returned = FALSE: the loop prompts again
select_from_list(data, inp) ==
    IF inp.isdigit
    THEN IF 0 <= inp.value /\ inp.value <= Len(data)
         THEN IF inp.value = 0
              THEN [returned |-> TRUE, value |-> -1]
              ELSE [returned |-> TRUE, value |-> inp.value - 1]
         ELSE [returned |-> FALSE, value |-> 0]
    ELSE [returned |-> FALSE, value |-> 0]

\* line 208: candidates.keys()
SelStart ==
    /\ pc = "sel_start"
    /\ IF candidates.tag # "dict"
       THEN /\ Crash("AttributeError", "select_candidate_prompt")
            /\ UNCHANGED distros
       ELSE /\ distros' = DictKeys(candidates.val)
            /\ pc' = "sel_distro"
            /\ UNCHANGED error
    /\ UNCHANGED <<printed, proxy, driver, consent, pollVars, captchaVars,
                   extractVars, candidates, versions, chosen, prompted,
                   zeroAt, res>>

\* lines 209-211: one prompt for the distro and, once select_from_list has
\* returned, the two lines that use the index
SelDistro ==
    /\ pc = "sel_distro"
    /\ \E inp \in Inputs :
         LET sel == select_from_list(distros, inp) IN
         /\ prompted' = prompted \cup {1}
         /\ zeroAt' = IF inp.isdigit /\ inp.value = 0 THEN zeroAt \cup {1} ELSE zeroAt
         /\ IF ~sel.returned
            THEN UNCHANGED <<pc, error, chosen, versions>>
            ELSE /\ chosen' = <<sel.value>>
                 /\ IF ~PyIndexOk(distros, sel.value)
                    THEN /\ Crash("IndexError", "select_candidate_prompt")
                         /\ UNCHANGED versions
                    ELSE /\ versions' = DictKeys(DictGet(candidates.val,
                                                         PyIndex(distros, sel.value)))
                         /\ pc' = "sel_version"
                         /\ UNCHANGED error
    /\ UNCHANGED <<printed, proxy, driver, consent, pollVars, captchaVars,
                   extractVars, candidates, distros, res>>

\* lines 212-215: one prompt for the version and, once select_from_list has
\* returned, the lines that use the index.  The value under a version is
\* the list of line 170, and a list has no keys(): line 214 raises for
\* every catalog get_candidates builds, so lines 216-222 are never reached.
SelVersion ==
    /\ pc = "sel_version"
    /\ \E inp \in Inputs :
         LET sel == select_from_list(versions, inp) IN
         /\ prompted' = prompted \cup {2}
         /\ zeroAt' = IF inp.isdigit /\ inp.value = 0 THEN zeroAt \cup {2} ELSE zeroAt
         /\ IF ~sel.returned
            THEN UNCHANGED <<pc, error, chosen>>
            ELSE /\ chosen' = Append(chosen, sel.value)
                 /\ IF ~PyIndexOk(versions, sel.value)
                    THEN Crash("IndexError", "select_candidate_prompt")
                    ELSE Crash("AttributeError", "select_candidate_prompt")
    /\ UNCHANGED <<printed, proxy, driver, consent, pollVars, captchaVars,
                   extractVars, candidates, distros, versions, res>>

(* ------------------------------ the system ----------------------------- *)
Next ==
    \/ MainStart
    \/ GcLoad
    \/ GcConsent
    \/ GcCheck
    \/ ScStart
    \/ ScCell
    \/ ScNextRow
    \/ ScExhausted
    \/ GcSettle
    \/ GcLocate
    \/ GcActivate
    \/ GcCard
    \/ GcReturn
    \/ MainDump
    \/ SelStart
    \/ SelDistro
    \/ SelVersion

Spec == Init /\ [][Next]_vars

TypeOK ==
    /\ pc \in {"main", "gc_get", "gc_consent", "gc_check", "sc_start", "sc_scan",
               "sc_return", "gc_locate", "gc_card", "main_dump", "sel_start",
               "sel_distro", "sel_version", "done", "crashed"}
    /\ counter \in 0..ClickThreshold
    /\ sinceCheck \in 0..1
    /\ buttons \in -1..MaxSections
    /\ res = NoValue

(* ============================ properties =============================== *)
(* ----------------------------- solve_captcha --------------------------- *)
Cells(g) == {<<i, j>> \in (1..Len(g)) \X (1..MaxCells) : j <= Len(g[i])}

\* the cells of g on which the classifier answers "yes" for target t
Matching(g, t) ==
    {p \in Cells(g) : LET ho == has_object(g[p[1]][p[2]], t)
                      IN ho.raised = "none" /\ ho.value}

\* a call of solve_captcha is over: it returned, or an exception left it
EpisodeOver ==
    \/ pc = "sc_return"
    \/ pc = "crashed" /\ error.at = "has_object"

\* C1: when a call of solve_captcha is over, on a grid with exactly k cells
\* matching the target it has clicked exactly min(k, 3) cells, and if it
\* clicked three the last cell it classified is the third one it clicked.
C1_ClicksAreMinK3 ==
    EpisodeOver =>
        /\ Len(clicks) = Min(Cardinality(Matching(grid, expected)), ClickThreshold)
        /\ Len(clicks) = ClickThreshold =>
               classified[Len(classified)] = clicks[ClickThreshold]

\* C8: a cell whose image cannot be decoded counts as "no match": it is not
\* clicked and the run is not ended by it (the target being a known class).
C8_CellFaultIsNoMatch ==
    \A k \in 1..Len(classified) :
        LET p == classified[k] IN
        (expected \in Range(CLASS_NAMES) /\ ~grid[p[1]][p[2]].b64) =>
            /\ pc # "crashed"
            /\ p \notin Range(clicks)

(* ------------------------------ the poller ----------------------------- *)
InEpisode == pc \in {"sc_start", "sc_scan", "sc_return"}

CardsTouched ==
    \/ pc \in {"gc_locate", "gc_card", "main_dump"}
    \/ buttons # -1
    \/ page # <<>>
    \/ activated # {}

\* C9: cards are located, activated or read only after a presence test found
\* no captcha; solve_captcha runs only after a test that found one, once per
\* such test, and its return leads back to the test; after a test that found
\* none, no call of solve_captcha and no further test follows.
C9_PollerGatesExtraction ==
    /\ [](CardsTouched => lastCheck = "absent")
    /\ [](InEpisode => lastCheck = "present")
    /\ [](sinceCheck <= 1)
    /\ []((pc = "sc_return" \/ (pc = "gc_check" /\ lastCheck = "present"))
              => sinceCheck = 1)
    /\ [][pc = "sc_return" => pc' = "gc_check"]_vars
    /\ [][lastCheck = "absent" =>
              /\ lastCheck' = "absent"
              /\ sinceCheck' = 0
              /\ ~InEpisode']_vars

\* one call of solve_captcha has returned after a positive test and the
\* loop stands at its test again
C9_Witness == pc = "gc_check" /\ lastCheck = "present" /\ sinceCheck = 1

(* ----------------------------- the extractor --------------------------- *)
\* get_candidates has just returned: its locals are still there
Returned == pc = "main_dump"

FirstRowIsData(card) == Len(card.rows) >= 1 /\ card.rows[1].kind = "data"

\* reading the card raises: a row that is not a header comes before every
\* header, or a row that is not a header lacks its link or description
Faults(card) ==
    \E k \in 1..Len(card.rows) :
        /\ card.rows[k].kind # "header"
        /\ \/ card.rows[k].kind = "broken"
           \/ \A j \in 1..(k - 1) : card.rows[j].kind # "header"

HeaderPos(rows) == {k \in 1..Len(rows) : rows[k].kind = "header"}

\* a card as the page is meant to show it: a header first, every other row
\* a complete data row, no two headers with the same text
WellFormed(card) ==
    /\ Len(card.rows) >= 1
    /\ card.rows[1].kind = "header"
    /\ \A k \in 1..Len(card.rows) : card.rows[k].kind # "broken"
    /\ \A j, k \in HeaderPos(card.rows) : card.rows[j].text = card.rows[k].text => j = k

Entry(row) == [link |-> row.link, description |-> row.description]

\* the data rows that follow the header at h, up to the next header
EntriesUnder(rows, h) ==
    LET last == IF \E k \in HeaderPos(rows) : k > h
                THEN (CHOOSE k \in HeaderPos(rows) :
                          k > h /\ \A j \in HeaderPos(rows) : j > h => k <= j) - 1
                ELSE Len(rows)
    IN [k \in 1..(last - h) |-> Entry(rows[h + k])]

\* the subsections of a well-formed card, in page order
Subsections(rows) ==
    LET nth(m) == CHOOSE k \in HeaderPos(rows) :
                      Cardinality({j \in HeaderPos(rows) : j <= k}) = m
    IN [m \in 1..Cardinality(HeaderPos(rows)) |->
            [k |-> rows[nth(m)].text, v |-> EntriesUnder(rows, nth(m))]]

\* C5: when get_candidates returns a catalog, a card whose first row is a
\* data row has added nothing to it and the other cards were still read:
\* the keys of the catalog are the names of the cards that read without a
\* fault; for the page [bad, good], bad starting with a data row and good
\* well-formed, the catalog is exactly good's name with good's subsections
\* and all their entries.
C5_BadCardIsSkipped ==
    (Returned /\ candidates.tag = "dict") =>
        /\ (\E i \in 1..Len(page) : FirstRowIsData(page[i])) =>
               Range(DictKeys(candidates.val)) =
                   {page[j].name : j \in {j \in 1..Len(page) : ~Faults(page[j])}}
        /\ (Len(page) = 2 /\ FirstRowIsData(page[1]) /\ WellFormed(page[2])) =>
               candidates.val = <<[k |-> page[2].name, v |-> Subsections(page[2].rows)]>>

C5_Witness ==
    /\ Returned
    /\ Len(page) = 2
    /\ FirstRowIsData(page[1])
    /\ WellFormed(page[2])
    /\ \E k \in 1..Len(page[2].rows) : page[2].rows[k].kind = "data"
    /\ 0 \in faulted

\* C6: get_candidates returns None exactly when the page shows no card; when
\* it shows cards and every one of them faults, it returns the empty
\* catalog, which is not None.
C6_NoneIffNoCards ==
    Returned =>
        /\ candidates = None <=> buttons = 0
        /\ (buttons > 0 /\ \A i \in 1..Len(page) : Faults(page[i])) =>
               (candidates = Dict(<<>>) /\ candidates # None)

C6_Witness ==
    /\ Returned
    /\ buttons > 0
    /\ Len(page) = buttons
    /\ \A i \in 1..Len(page) : Faults(page[i])
    /\ candidates = Dict(<<>>)

\* C10: a card of index > 0 that shows no row after its activation is not
\* stored in the catalog as a distribution with no subsection.
C10_EmptyCardNotKept ==
    (Returned /\ candidates.tag = "dict") =>
        \A i \in 2..Len(page) :
            (page[i].rows = <<>> /\ (i - 1) \in activated) =>
                ~(/\ DictHas(candidates.val, page[i].name)
                  /\ DictGet(candidates.val, page[i].name) = <<>>)

(* ------------------------- main and the selector ----------------------- *)
InSelector ==
    \/ pc \in {"sel_start", "sel_distro", "sel_version"}
    \/ pc = "crashed" /\ error.at = "select_candidate_prompt"

\* C7: when get_candidates found no candidates, select_candidate_prompt is
\* not called on that result and the run ends without an exception.
C7_NoCandidatesEndsRun ==
    candidates = None => (~InSelector /\ error = NoError)

\* C2: once the operator has typed 0 at some level, no prompt of a later
\* level is issued, the selection has ended without an exception and it has
\* returned nothing of the catalog.
C2_ZeroCancels ==
    zeroAt # {} =>
        /\ \A l \in zeroAt : \A m \in prompted : m <= l
        /\ pc \notin {"sel_distro", "sel_version"}
        /\ error = NoError
        /\ res = NoValue

\* the list under the chosen version of the chosen distro
ChosenEntries ==
    DictGet(DictGet(candidates.val, PyIndex(distros, chosen[1])),
            PyIndex(versions, chosen[2]))

\* every distro of the catalog has a version and every version an entry
Populated(cat) ==
    /\ Len(cat) >= 1
    /\ \A d \in 1..Len(cat) :
           /\ Len(cat[d].v) >= 1
           /\ \A k \in 1..Len(cat[d].v) : Len(cat[d].v[k].v) >= 1

\* C3: with no 0 typed, select_candidate_prompt on a catalog in which every
\* level has something to choose raises nothing, and once a distro and a
\* version are chosen what it returns is the link of an entry of that
\* version.
C3_SelectorReturnsLink ==
    (InSelector /\ candidates.tag = "dict" /\ Populated(candidates.val) /\ zeroAt = {}) =>
        /\ error = NoError
        /\ res # NoValue =>
               \E k \in 1..Len(ChosenEntries) : res = Str(ChosenEntries[k].link)

\* C4: once a distro and a version are chosen (no 0 typed), a version with exactly one
\* entry has that entry's link returned with no prompt beyond the version
\* level; a version with two or more entries has a link returned only after
\* a prompt beyond the version level.
C4_SingleEntryNoPrompt ==
    (Len(chosen) = 2 /\ zeroAt = {}) =>
        /\ Len(ChosenEntries) = 1 =>
               (res = Str(ChosenEntries[1].link) /\ prompted \subseteq {1, 2})
        /\ Len(ChosenEntries) >= 2 =>
               (res # NoValue => ~(prompted \subseteq {1, 2}))

(* ------------------------- C11, C12, C13 -------------------------------- *)
\* C11: in a catalog get_candidates returns, every subsection key of every
\* distribution maps to a list with at least one entry.
C11_NoEmptySubsection ==
    (Returned /\ candidates.tag = "dict") =>
        \A d \in 1..Len(candidates.val) :
            \A k \in 1..Len(candidates.val[d].v) :
                Len(candidates.val[d].v[k].v) >= 1

\* http://<host> with no port, which the format "http://<host>[:<port>]"
\* admits and the pattern of line 85 does not
HostOnly(s) ==
    /\ Len(s) > Len(HttpPrefix)
    /\ SubSeq(s, 1, Len(HttpPrefix)) = HttpPrefix
    /\ \A m \in (Len(HttpPrefix) + 1)..Len(s) : s[m] \in HostChars

\* a proxy argument that neither reading of the format accepts
InvalidProxyGiven ==
    ~proxy.isNone /\ ~validate_proxy(proxy.str) /\ ~HostOnly(proxy.str)

\* C12: with a proxy argument that does not match the format, once main has
\* acted no Driver exists, the message has been printed, the run is over
\* and its exit status is not 0.
C12_InvalidProxyAborts ==
    (InvalidProxyGiven /\ pc # "main") =>
        /\ ~driver
        /\ "Invalid proxy format" \in printed
        /\ pc = "done"
        /\ ExitStatus # 0

\* row-major order of two cells <<row, cell>>
Before(p, q) == p[1] < q[1] \/ (p[1] = q[1] /\ p[2] < q[2])

Scanning ==
    \/ pc \in {"sc_scan", "sc_return"}
    \/ pc = "crashed" /\ error.at = "has_object"

\* C13: during and after a call of solve_captcha the cells classified so
\* far are, in order and each once, the cells of the grid up to the last one
\* classified in row-major order; the clicks are, in that same order, the
\* matching cells among them.
C13_RowMajorScan ==
    Scanning =>
        /\ \A j, k \in 1..Len(classified) :
               j < k => Before(classified[j], classified[k])
        /\ \A p \in Cells(grid) :
               (\E k \in 1..Len(classified) : Before(p, classified[k])) =>
                   p \in Range(classified)
        /\ Range(classified) \subseteq Cells(grid)
        /\ \A j, k \in 1..Len(clicks) : j < k => Before(clicks[j], clicks[k])
        /\ Range(clicks) = Range(classified) \cap Matching(grid, expected)

\* three clicks that span two rows of the grid
C13_Witness ==
    /\ pc = "sc_return"
    /\ Len(clicks) = ClickThreshold
    /\ clicks[1][1] # clicks[ClickThreshold][1]
    /\ Len(classified) > ClickThreshold

(* --------------------- C14, C15, C16, C19: the cards -------------------- *)
\* a card has just been read, or get_candidates has just returned
CardRead == pc \in {"gc_card", "main_dump"} /\ Len(page) >= 1

LastCard == page[Len(page)]

\* the header row a data row at k belongs to: the nearest one before it
Owner(rows, k) ==
    CHOOSE h \in HeaderPos(rows) :
        h < k /\ \A j \in HeaderPos(rows) : j < k => j <= h

\* the last header row that carries the text t
LastHeader(rows, t) ==
    CHOOSE h \in HeaderPos(rows) :
        rows[h].text = t /\ \A j \in HeaderPos(rows) : rows[j].text = t => j <= h

DataPos(rows) == {k \in 1..Len(rows) : rows[k].kind = "data"}

TextsOf(rows) == {rows[h].text : h \in HeaderPos(rows)}

\* the entries of the rows at the positions P, in page order
EntriesAt(rows, P) ==
    LET nth(m) == CHOOSE k \in P : Cardinality({j \in P : j <= k}) = m
    IN [m \in 1..Cardinality(P) |-> Entry(rows[nth(m)])]

C15_FaultLeavesResult ==
    /\ [][(Len(page') = Len(page) + 1 /\ Faults(page'[Len(page')])) =>
              (result' = result /\ error' = NoError /\ pc' = "gc_card")]_vars
    /\ [](Returned => Len(page) = buttons)

\* an earlier card is in the catalog and a later one faulted after a header
\* and a data row of it had been read
C15_Witness ==
    /\ Returned
    /\ Len(page) = 2
    /\ ~Faults(page[1])
    /\ Len(page[2].rows) = 3
    /\ page[2].rows[1].kind = "header"
    /\ page[2].rows[2].kind = "data"
    /\ page[2].rows[3].kind = "broken"
    /\ candidates = Dict(<<[k |-> page[1].name, v |-> <<>>]>>)

\* C16: every card of index > 0 whose name and rows have been read had been
\* clicked before; the card of index 0 is never clicked; no card is clicked
\* before all cards ahead of it on the page have been read.
C16_ClickBeforeRead ==
    /\ \A i \in 1..(Len(page) - 1) : i \in activated
    /\ 0 \notin activated
    /\ \A i \in activated : i <= Len(page)

C16_Witness == pc = "gc_card" /\ Len(page) = 2 /\ activated = {1}

FaultFree(name) == {j \in 1..Len(page) : ~Faults(page[j]) /\ page[j].name = name}

\* the subsections the rows of a card give: the header texts in the order of
\* their first header row, each with the data rows under its last header row
CardValue(rows) ==
    LET firsts == {h \in HeaderPos(rows) :
                       \A j \in HeaderPos(rows) : rows[j].text = rows[h].text => h <= j}
        nth(m) == CHOOSE h \in firsts : Cardinality({j \in firsts : j <= h}) = m
    IN [m \in 1..Cardinality(firsts) |->
            [k |-> rows[nth(m)].text,
             v |-> EntriesAt(rows, {k \in DataPos(rows) :
                                        Owner(rows, k) = LastHeader(rows, rows[nth(m)].text)})]]

\* C19: in the catalog get_candidates returns, a name that several cards
\* read without fault share is one key, its value is what the last of these
\* cards gives, and the catalog has one key per such name, so at most as
\* many keys as cards read without fault.
C19_LaterCardReplaces ==
    (Returned /\ candidates.tag = "dict") =>
        /\ \A name \in DistroNames :
               FaultFree(name) # {} =>
                   LET last == CHOOSE j \in FaultFree(name) :
                                   \A i \in FaultFree(name) : i <= j
                   IN /\ Cardinality({d \in 1..Len(candidates.val) :
                                          candidates.val[d].k = name}) = 1
                      /\ DictGet(candidates.val, name) = CardValue(page[last].rows)
        /\ Len(candidates.val) =
               Cardinality({name \in DistroNames : FaultFree(name) # {}})
        /\ Len(candidates.val) <=
               Cardinality({j \in 1..Len(page) : ~Faults(page[j])})

\* two cards of one name, both read without fault, the first one with an
\* entry that the catalog no longer holds
C19_Witness ==
    /\ Returned
    /\ Len(page) = 2
    /\ page[1].name = page[2].name
    /\ ~Faults(page[1])
    /\ ~Faults(page[2])
    /\ DataPos(page[1].rows) # {}
    /\ DataPos(page[2].rows) = {}
    /\ Len(candidates.val) = 1

(* ------------------- C17, C18: the unsolvable challenge ----------------- *)
UnknownTarget == expected \notin Range(CLASS_NAMES)

AllDecodable(g) == \A p \in Cells(g) : g[p[1]][p[2]].b64

\* C18 as first stated, for images that all decode: while no cell matches
\* the target (the classifier finds nothing, or the target is outside
\* CLASS_NAMES) no failure is reported.
C18_UnsolvableNeverFails ==
    (Scanning /\ AllDecodable(grid) /\ Matching(grid, expected) = {}) =>
        error = NoError

LoopPcs == {"gc_check", "sc_start", "sc_scan", "sc_return"}

\* C18: the poller loop is left only by a presence test that finds no
\* captcha, which leads to the search for the cards, or by an exception of
\* has_object; a test that finds the captcha starts a call of
\* solve_captcha.  A call on a grid with no matching cell clicks nothing; it
\* ends with an exception exactly when the target is outside CLASS_NAMES
\* and the grid has a cell, or the target is known and a cell does not
\* decode; otherwise it returns without error and the loop tests again.
C18_LoopLeftOnlyByAbsenceOrError ==
    /\ [][(pc \in LoopPcs) =>
              (\/ pc' \in LoopPcs
               \/ (pc = "gc_check" /\ lastCheck' = "absent" /\ pc' = "gc_locate")
               \/ (pc = "sc_scan" /\ pc' = "crashed" /\ error'.at = "has_object"))]_vars
    /\ [][pc = "gc_check" =>
              (/\ lastCheck' = "present" => pc' = "sc_start"
               /\ lastCheck' = "absent" => pc' = "gc_locate")]_vars
    /\ []((EpisodeOver /\ Matching(grid, expected) = {}) =>
              /\ clicks = <<>>
              /\ pc = "crashed" <=>
                     \/ UnknownTarget /\ Cells(grid) # {}
                     \/ ~UnknownTarget /\ ~AllDecodable(grid)
              /\ pc = "sc_return" => error = NoError)

\* a call with a known target went through a grid in which nothing matched
\* and has returned to the loop
C18_Witness ==
    /\ pc = "sc_return"
    /\ ~UnknownTarget
    /\ Cells(grid) # {}
    /\ Matching(grid, expected) = {}
    /\ Len(classified) = Cardinality(Cells(grid))

====
